---- MODULE Spec2Model ----
(***************************************************************************)
(* State-machine model of main() in src/tfr_mne_sample.py: one run of the  *)
(* EEG time-frequency pipeline, statement group by statement group.        *)
(*                                                                         *)
(* Numbers.  Sample values are integers.  A p-value is held in thousandths *)
(* (0.05 is 50).  The trial mean diff_mean is held as the per-point sum    *)
(* over the n matched trials (mean = sum / n), and vmax / vmin in units of *)
(* 1 / (100 * n), so that the 98th percentile's linear interpolation stays  *)
(* exact.  Frequencies and times are rationals <<numerator, denominator>>. *)
(*                                                                         *)
(* Library numerics.  What the wavelet transform, the baseline correction  *)
(* and the permutation statistic compute is decided by the library and the *)
(* recording.  The model takes these values as part of the input: each     *)
(* epoch carries a seed that selects its time-frequency content (Power,    *)
(* LogRatio), and env.lib is the thresholded statistic and the cluster     *)
(* p-values the test will return for this recording.  How the script       *)
(* slices, subtracts, reshapes, thresholds and reports them is modelled    *)
(* from the source.                                                        *)
(***************************************************************************)
EXTENDS Integers, Sequences, FiniteSets, TLC

VARIABLES pc, env, disk, stdout, log, exc, loc

vars == <<pc, env, disk, stdout, log, exc, loc>>

-----------------------------------------------------------------------------
(* Program constants *)

N == 80
SFreq == 250
LFreq == 1
HFreq == 40
FMin == 4
FMax == 40
Alpha == 50
Pct == 98
Dpi == 400
Preferred == "EEG 014"

(* Bounds of the model *)

NFreqs == 2
NTimes == 3
MaxCh == 2
Extra == 1
MaxTrials == 2
MaxSupra == 2

-----------------------------------------------------------------------------
(* Generic helpers *)

Min2(a, b) == IF a <= b THEN a ELSE b

Abs(x) == IF x < 0 THEN -x ELSE x

Range(s) == {s[i] : i \in 1..Len(s)}

RECURSIVE SumSeq(_)
SumSeq(s) == IF s = <<>> THEN 0 ELSE Head(s) + SumSeq(Tail(s))

RECURSIVE SetToSortedSeq(_)
SetToSortedSeq(S) ==
    IF S = {} THEN <<>>
    ELSE LET m == CHOOSE x \in S : \A y \in S : x <= y
         IN  <<m>> \o SetToSortedSeq(S \ {m})

(* np.sort of a sequence of integers (insertion sort) *)
RECURSIVE Insert(_, _)
Insert(x, s) ==
    IF s = <<>> THEN <<x>>
    ELSE IF x <= Head(s) THEN <<x>> \o s
    ELSE <<Head(s)>> \o Insert(x, Tail(s))

RECURSIVE Sorted(_)
Sorted(s) == IF s = <<>> THEN <<>> ELSE Insert(Head(s), Sorted(Tail(s)))

Digit == <<"0", "1", "2", "3", "4", "5", "6", "7", "8", "9">>

(* str() of a non-negative integer, as an f-string field formats it *)
RECURSIVE IntToStr(_)
IntToStr(k) ==
    IF k < 10 THEN Digit[k + 1]
    ELSE IntToStr(k \div 10) \o Digit[(k % 10) + 1]

(* format(q, ".1f") of a non-negative rational q = <<num, den>> *)
Fmt1f(q) ==
    LET tenths == (20 * q[1] + q[2]) \div (2 * q[2])
    IN  IntToStr(tenths \div 10) \o "." \o Digit[(tenths % 10) + 1]

-----------------------------------------------------------------------------
(* The time-frequency grid *)

NPoints == NFreqs * NTimes

(* np.linspace(4, 40, NFreqs): both end points are exact *)
Linspace(lo, hi, k) == [i \in 1..k |-> <<lo * (k - 1) + (hi - lo) * (i - 1), k - 1>>]

(* sample times of an epoch from tmin = -0.2 s to tmax = 0.8 s, in ms *)
EpochTimes == Linspace(-200, 800, NTimes)

-----------------------------------------------------------------------------
(* Input: recordings, channel lists, disk states *)

Eeg001 == [name |-> "EEG 001", kind |-> "eeg"]
Eeg014 == [name |-> "EEG 014", kind |-> "eeg"]
Meg0111 == [name |-> "MEG 0111", kind |-> "mag"]

ChanPool == {Eeg001, Eeg014, Meg0111}

(* channel lists of 1..k channels without a repeated channel *)
ChanLists(k) ==
    UNION {{s \in [1..len -> ChanPool] :
               \A i, j \in 1..len : i # j => s[i] # s[j]} : len \in 1..k}

Seeds == {0, 1, 2}

ChWeight(c) ==
    CASE c = "EEG 001" -> 1
      [] c = "EEG 014" -> 2
      [] OTHER -> 4

(* Morlet power of the epoch with seed s at channel c, frequency f, time t *)
Power(s, c, f, t) == 1 + ((s * ChWeight(c) + f + 2 * t) % 5)

(* the same after logratio baseline correction *)
LogRatio(s, c, f, t) == ((s * ChWeight(c) + 2 * f + 3 * t * (s + 1)) % 7) - 3

-----------------------------------------------------------------------------
(* The cluster test's answer for a recording (library numerics, see above) *)

PValues == {0, Alpha - 1, Alpha, Alpha + 1, 1000}

(* The sample handed to the test is the flattened vector X_2d[k], one
   dimension, and no adjacency is given: the library then connects each
   feature to its neighbours along that one axis, so a cluster is a maximal
   run, and for a one-dimensional sample out_type="mask" describes a cluster
   not by a boolean array but by a tuple holding one slice (start, stop),
   0-based and half open (MNE, permutation_cluster_1samp_test, out_type:
   "or slices if the shape is 1D and adjacency is None") *)
RunStarts(b) == {i \in 1..Len(b) : b[i] /\ (i = 1 \/ ~b[i - 1])}

RunEnd(b, s) ==
    CHOOSE e \in s..Len(b) :
        /\ \A j \in s..e : b[j]
        /\ (e = Len(b) \/ ~b[e + 1])

RunSlice(b, s) ==
    [type |-> "tuple",
     items |-> <<[type |-> "slice", start |-> s - 1, stop |-> RunEnd(b, s)]>>]

Runs1D(b) ==
    LET starts == SetToSortedSeq(RunStarts(b))
    IN  [k \in 1..Len(starts) |-> RunSlice(b, starts[k])]

(* tail=0: clusters of the negative tail, then of the positive tail; points
   of opposite sign are never joined *)
FindClusters(sign) ==
    Runs1D([j \in 1..Len(sign) |-> sign[j] < 0])
        \o Runs1D([j \in 1..Len(sign) |-> sign[j] > 0])

(* sign maps with at most k points beyond the threshold *)
SignMaps(k) ==
    UNION {{[j \in 1..NPoints |-> IF j \in S THEN sg[j] ELSE 0] : sg \in [S -> {-1, 1}]} :
              S \in {T \in SUBSET (1..NPoints) : Cardinality(T) <= k}}

LibOf(SignSet, PSet) ==
    UNION {{[sign |-> s, pv |-> p] : p \in [1..Len(FindClusters(s)) -> PSet]} : s \in SignSet}

NoSupra == [j \in 1..NPoints |-> 0]
OneRun == [j \in 1..NPoints |-> IF j <= 2 THEN 1 ELSE 0]

LibSmall == LibOf({NoSupra}, PValues) \cup LibOf({OneRun}, {Alpha - 1, Alpha})
LibAll == LibOf(SignMaps(MaxSupra), {Alpha - 1, Alpha})

-----------------------------------------------------------------------------
(* Initial states *)

None == "None"

Locals ==
    {"raw", "events", "epochs", "epochs_L", "epochs_R", "freqs", "n_cycles",
     "tfr_L", "tfr_R", "baseline", "ch", "X_L", "X_R", "n", "X", "times",
     "X_2d", "T_obs", "clusters", "cluster_pv", "sig_mask", "diff_mean",
     "vmax", "vmin", "fig", "out_png", "report_path"}

FreshDisk == [dir |-> FALSE, png |-> [state |-> "absent", content |-> <<>>],
              report |-> [state |-> "absent", lines |-> <<>>]]
StaleDisk == [dir |-> TRUE, png |-> [state |-> "stale", content |-> <<>>],
              report |-> [state |-> "stale", lines |-> <<>>]]

(* epochs of a long recording: the seeds cycle *)
Cyclic(len, off) == [i \in 1..len |-> (i + off) % 3]

SeqsUpTo(S, k) == UNION {[1..len -> S] : len \in 0..k}

(* markers in the events file: at least the epochs that survive; a condition
   left without epochs has no marker at all or one whose epoch is dropped *)
MarkerCounts(k) == IF k = 0 THEN {0, 1} ELSE {k}

MarkersFor(tr) ==
    {[L |-> a, R |-> b] : a \in MarkerCounts(Len(tr.L)), b \in MarkerCounts(Len(tr.R))}

LongCounts == {0, 1} \cup ((N - 1)..(N + Extra))

TrialsRun == {[L |-> Cyclic(a, 0), R |-> Cyclic(b, 1)] : a, b \in LongCounts}
TrialsData == {[L |-> l, R |-> r] : l, r \in SeqsUpTo(Seeds, MaxTrials)}
TrialsOne == {[L |-> <<0, 2>>, R |-> <<1, 1>>]}

InitWith(Files, Chans, Trials, Lib, Disks) ==
    /\ pc = "makedirs"
    /\ \E fl \in Files, c \in Chans, tr \in Trials, l \in Lib :
          \E m \in MarkersFor(tr) :
              env = [raw_file |-> fl[1], eve_file |-> fl[2], chs |-> c, trials |-> tr,
                     markers |-> m, lib |-> l]
    /\ disk \in Disks
    /\ stdout = <<>>
    /\ log = <<>>
    /\ exc = None
    /\ loc = [v \in Locals |-> None]

AllFiles == {<<TRUE, TRUE>>, <<FALSE, TRUE>>, <<TRUE, FALSE>>}
FilesOk == {<<TRUE, TRUE>>}

(* runs that end early: a missing input file, no EEG channel, an empty
   condition, a significant cluster *)
InitBroken ==
    \/ InitWith(AllFiles \ FilesOk, {<<Eeg014>>}, TrialsOne, {[sign |-> NoSupra, pv |-> <<>>]},
                {FreshDisk, StaleDisk})
    \/ InitWith(FilesOk, {<<Meg0111>>}, TrialsOne, {[sign |-> NoSupra, pv |-> <<>>]},
                {FreshDisk, StaleDisk})
    \/ InitWith(FilesOk, {<<Eeg014>>},
                {[L |-> l, R |-> r] : l, r \in SeqsUpTo({1}, 1)} \ {[L |-> <<1>>, R |-> <<1>>]},
                {[sign |-> NoSupra, pv |-> <<>>]}, {FreshDisk, StaleDisk})
    \/ InitWith(FilesOk, {<<Eeg014>>}, TrialsOne, {[sign |-> OneRun, pv |-> <<Alpha - 1>>]},
                {FreshDisk, StaleDisk})

InitRun ==
    InitWith(FilesOk, ChanLists(MaxCh), TrialsRun, LibSmall, {FreshDisk, StaleDisk})

InitData ==
    InitWith(FilesOk, {<<Eeg014>>, <<Meg0111, Eeg001, Eeg014>>, <<Eeg001>>}, TrialsData,
             {[sign |-> OneRun, pv |-> <<Alpha>>]}, {FreshDisk})

InitStats ==
    InitWith(FilesOk, {<<Eeg014>>}, TrialsOne, LibAll, {FreshDisk})

-----------------------------------------------------------------------------
(* Control flow: a statement group that returns moves on and is logged; one
   that raises ends the run, since main() has no try/except *)

Step(stmt, next, newloc) ==
    /\ pc = stmt
    /\ pc' = next
    /\ log' = Append(log, stmt)
    /\ loc' = newloc
    /\ UNCHANGED <<env, exc>>

Raise(stmt, e) ==
    /\ pc = stmt
    /\ pc' = "failed"
    /\ exc' = e
    /\ UNCHANGED <<env, log, loc>>

-----------------------------------------------------------------------------
(* Loading and preprocessing, lines 7-36 *)

(* os.makedirs("results", exist_ok=True) *)
MakeDirs ==
    \/ /\ Step("makedirs", "read_raw", loc)
       /\ disk' = [disk EXCEPT !.dir = TRUE]
       /\ UNCHANGED stdout
    \/ /\ ~disk.dir
       /\ Raise("makedirs", "OSError")
       /\ UNCHANGED <<disk, stdout>>

(* mne.io.read_raw_fif(raw_fname, preload=True) *)
ReadRaw ==
    /\ pc = "read_raw"
    /\ \/ /\ env.raw_file
          /\ Step("read_raw", "pick",
                  [loc EXCEPT !.raw = [chs |-> env.chs, filter |-> <<>>]])
       \/ /\ ~env.raw_file
          /\ Raise("read_raw", "FileNotFoundError")
    /\ UNCHANGED <<disk, stdout>>

EegOnly(chs) == SelectSeq(chs, LAMBDA c : c.kind = "eeg")

(* raw.pick("eeg") *)
PickEeg ==
    /\ pc = "pick"
    /\ \/ /\ EegOnly(loc.raw.chs) # <<>>
          /\ Step("pick", "filter", [loc EXCEPT !.raw.chs = EegOnly(loc.raw.chs)])
       \/ /\ EegOnly(loc.raw.chs) = <<>>
          /\ Raise("pick", "ValueError")
    /\ UNCHANGED <<disk, stdout>>

(* mutant: the band-pass filter left out *)
FilterSkipped ==
    /\ Step("filter", "read_events", loc)
    /\ UNCHANGED <<disk, stdout>>

(* raw.filter(1., 40.) *)
Filter ==
    /\ Step("filter", "read_events", [loc EXCEPT !.raw.filter = <<LFreq, HFreq>>])
    /\ UNCHANGED <<disk, stdout>>

(* mne.read_events(event_fname) *)
ReadEvents ==
    /\ pc = "read_events"
    /\ \/ /\ env.eve_file
          /\ Step("read_events", "epochs", [loc EXCEPT !.events = env.markers])
       \/ /\ ~env.eve_file
          /\ Raise("read_events", "FileNotFoundError")
    /\ UNCHANGED <<disk, stdout>>

(* mne.Epochs(raw, events, event_id, tmin=-0.2, tmax=0.8, baseline=None):
   an event code without any marker raises; the epochs cut from the picked
   and filtered recording are kept per condition, in marker order *)
MakeEpochs ==
    /\ pc = "epochs"
    /\ \/ /\ loc.events.L > 0 /\ loc.events.R > 0
          /\ Step("epochs", "resample",
                  [loc EXCEPT !.epochs =
                      [L |-> env.trials.L, R |-> env.trials.R,
                       ch_names |-> [i \in 1..Len(loc.raw.chs) |-> loc.raw.chs[i].name],
                       filter |-> loc.raw.filter, sfreq |-> None, baseline |-> None]])
       \/ /\ loc.events.L = 0 \/ loc.events.R = 0
          /\ Raise("epochs", "ValueError")
    /\ UNCHANGED <<disk, stdout>>

(* epochs = epochs.resample(250) *)
Resample ==
    /\ Step("resample", "select_L", [loc EXCEPT !.epochs.sfreq = SFreq])
    /\ UNCHANGED <<disk, stdout>>

(* s[:k] *)
FirstN(s, k) == SubSeq(s, 1, Min2(Len(s), k))

(* mutant: the [:80] slice left out *)
SelectUncut(e, cond) ==
    [trials |-> e[cond], ch_names |-> e.ch_names, filter |-> e.filter,
     sfreq |-> e.sfreq, baseline |-> e.baseline]

(* epochs["Auditory/Left"][:80] *)
Select(e, cond) ==
    [trials |-> FirstN(e[cond], N), ch_names |-> e.ch_names, filter |-> e.filter,
     sfreq |-> e.sfreq, baseline |-> e.baseline]

SelectL ==
    /\ Step("select_L", "select_R", [loc EXCEPT !.epochs_L = Select(loc.epochs, "L")])
    /\ UNCHANGED <<disk, stdout>>

SelectR ==
    /\ Step("select_R", "freqs", [loc EXCEPT !.epochs_R = Select(loc.epochs, "R")])
    /\ UNCHANGED <<disk, stdout>>

-----------------------------------------------------------------------------
(* Time-frequency transform and baseline, lines 41-56 *)

(* freqs = np.linspace(4, 40, 50); n_cycles = freqs / 2.0 *)
FreqGrid ==
    /\ LET fr == Linspace(FMin, FMax, NFreqs)
       IN  Step("freqs", "tfr_L",
                [loc EXCEPT !.freqs = fr,
                            !.n_cycles = [i \in 1..NFreqs |-> <<fr[i][1], 2 * fr[i][2]>>]])
    /\ UNCHANGED <<disk, stdout>>

(* epochs.compute_tfr(method="morlet", freqs, n_cycles, average=False):
   one (channel, frequency, time) array per epoch *)
ComputeTfr(e, fr) ==
    [data |-> [i \in 1..Len(e.trials) |->
                 [k \in 1..Len(e.ch_names) |->
                    [f \in 1..Len(fr) |->
                       [t \in 1..NTimes |-> Power(e.trials[i], e.ch_names[k], f, t)]]]],
     trials |-> e.trials, ch_names |-> e.ch_names, freqs |-> fr, times |-> EpochTimes,
     baseline |-> None]

(* what the transform does with an epochs object that holds no epoch is the
   library's business: it returns an empty array or raises *)
TfrL ==
    /\ pc = "tfr_L"
    /\ \/ Step("tfr_L", "tfr_R", [loc EXCEPT !.tfr_L = ComputeTfr(loc.epochs_L, loc.freqs)])
       \/ /\ loc.epochs_L.trials = <<>>
          /\ Raise("tfr_L", "ValueError")
    /\ UNCHANGED <<disk, stdout>>

TfrR ==
    /\ pc = "tfr_R"
    /\ \/ Step("tfr_R", "baseline_L", [loc EXCEPT !.tfr_R = ComputeTfr(loc.epochs_R, loc.freqs)])
       \/ /\ loc.epochs_R.trials = <<>>
          /\ Raise("tfr_R", "ValueError")
    /\ UNCHANGED <<disk, stdout>>

(* tfr.apply_baseline(baseline=(-0.2, 0.0), mode="logratio"), in place *)
ApplyBaseline(tfr) ==
    [tfr EXCEPT
        !.data = [i \in 1..Len(tfr.trials) |->
                    [k \in 1..Len(tfr.ch_names) |->
                       [f \in 1..Len(tfr.freqs) |->
                          [t \in 1..NTimes |-> LogRatio(tfr.trials[i], tfr.ch_names[k], f, t)]]]],
        !.baseline = <<-200, 0, "logratio">>]

BaselineL ==
    /\ Step("baseline_L", "baseline_R",
            [loc EXCEPT !.baseline = <<-200, 0>>, !.tfr_L = ApplyBaseline(loc.tfr_L)])
    /\ UNCHANGED <<disk, stdout>>

BaselineR ==
    /\ Step("baseline_R", "choose_ch", [loc EXCEPT !.tfr_R = ApplyBaseline(loc.tfr_R)])
    /\ UNCHANGED <<disk, stdout>>

-----------------------------------------------------------------------------
(* Channel choice and the per-trial difference, lines 62-85 *)

(* mutant: always the first channel *)
ChooseFirst(names) == names[1]

(* preferred if preferred in tfr_L.ch_names else tfr_L.ch_names[0] *)
ChooseCh(names) == IF Preferred \in Range(names) THEN Preferred ELSE names[1]

ChooseChannel ==
    /\ Step("choose_ch", "extract_L", [loc EXCEPT !.ch = ChooseCh(loc.tfr_L.ch_names)])
    /\ UNCHANGED <<disk, stdout>>

ChIndex(names, c) == CHOOSE k \in 1..Len(names) : names[k] = c

(* tfr.copy().pick(ch).data[:, 0, :, :] *)
PickData(tfr, c) ==
    [i \in 1..Len(tfr.data) |-> tfr.data[i][ChIndex(tfr.ch_names, c)]]

ExtractL ==
    /\ Step("extract_L", "extract_R", [loc EXCEPT !.X_L = PickData(loc.tfr_L, loc.ch)])
    /\ UNCHANGED <<disk, stdout>>

ExtractR ==
    /\ Step("extract_R", "difference", [loc EXCEPT !.X_R = PickData(loc.tfr_R, loc.ch)])
    /\ UNCHANGED <<disk, stdout>>

(* mutant: the Left count taken for the matched count *)
MatchedNLeft(xl, xr) == Len(xl)

(* min(X_L.shape[0], X_R.shape[0]) *)
MatchedN(xl, xr) == Min2(Len(xl), Len(xr))

(* X_R[:n] - X_L[:n] *)
TrialDiff(xl, xr, k) ==
    LET r == FirstN(xr, k)
        l == FirstN(xl, k)
    IN  [i \in 1..Len(r) |->
           [f \in 1..Len(r[i]) |->
              [t \in 1..Len(r[i][f]) |-> r[i][f][t] - l[i][f][t]]]]

Difference ==
    /\ LET k == MatchedN(loc.X_L, loc.X_R)
       IN  Step("difference", "axes",
                [loc EXCEPT !.n = k, !.X = TrialDiff(loc.X_L, loc.X_R, k)])
    /\ UNCHANGED <<disk, stdout>>

(* times = tfr_L.times; freqs = tfr_L.freqs *)
Axes ==
    /\ Step("axes", "reshape",
            [loc EXCEPT !.times = loc.tfr_L.times, !.freqs = loc.tfr_L.freqs])
    /\ UNCHANGED <<disk, stdout>>

(* X.reshape(n, -1) of an array of shape (n, n_freqs, n_times): row-major *)
Reshape2d(x) ==
    [i \in 1..Len(x) |->
       [j \in 1..(NFreqs * NTimes) |-> x[i][((j - 1) \div NTimes) + 1][((j - 1) % NTimes) + 1]]]

(* mutant: a reshape that accepts an empty array *)
ReshapeUnchecked ==
    /\ Step("reshape", "cluster_test", [loc EXCEPT !.X_2d = Reshape2d(loc.X)])
    /\ UNCHANGED <<disk, stdout>>

(* numpy cannot infer the -1 dimension of an array of size 0 *)
Reshape ==
    /\ pc = "reshape"
    /\ \/ /\ loc.n > 0
          /\ Step("reshape", "cluster_test", [loc EXCEPT !.X_2d = Reshape2d(loc.X)])
       \/ /\ loc.n = 0
          /\ Raise("reshape", "ValueError")
    /\ UNCHANGED <<disk, stdout>>

-----------------------------------------------------------------------------
(* Cluster permutation test and significance mask, lines 87-102 *)

(* permutation_cluster_1samp_test(X_2d, threshold=None, tail=0, out_type="mask",
   seed=42) with no adjacency given: the sample is the flattened feature
   vector, so clusters are runs along it *)
ClusterTest ==
    /\ Step("cluster_test", "mask",
            [loc EXCEPT !.T_obs = env.lib.sign,
                        !.clusters = FindClusters(env.lib.sign),
                        !.cluster_pv = env.lib.pv])
    /\ UNCHANGED <<disk, stdout>>

(* p < 0.05 *)
Significant(p) == p < Alpha

(* mask |= other on a boolean ndarray: elementwise or with another boolean
   array of the same shape; any other operand (here a tuple holding a slice,
   converted to an object array) cannot be cast back to bool and raises *)
InplaceOr(mask, other) ==
    IF other.type = "ndarray"
    THEN [raised |-> FALSE, mask |-> [j \in 1..Len(mask) |-> mask[j] \/ other.data[j]]]
    ELSE [raised |-> TRUE, mask |-> mask]

(* for cl, p in zip(clusters, cluster_pv): if p < 0.05: sig_mask |= cl *)
RECURSIVE MaskLoop(_, _, _, _)
MaskLoop(mask, cl, pv, k) ==
    IF k > Min2(Len(cl), Len(pv)) THEN [raised |-> FALSE, mask |-> mask]
    ELSE IF Significant(pv[k])
         THEN LET r == InplaceOr(mask, cl[k])
              IN  IF r.raised THEN r ELSE MaskLoop(r.mask, cl, pv, k + 1)
         ELSE MaskLoop(mask, cl, pv, k + 1)

(* np.zeros(X_2d.shape[1], dtype=bool) *)
Zeros(x2d) == [j \in 1..Len(x2d[1]) |-> FALSE]

(* sig_mask.reshape(len(freqs), len(times)) *)
ReshapeMask(flat, nf, nt) == [f \in 1..nf |-> [t \in 1..nt |-> flat[(f - 1) * nt + t]]]

BuildMask ==
    /\ pc = "mask"
    /\ LET r == MaskLoop(Zeros(loc.X_2d), loc.clusters, loc.cluster_pv, 1)
       IN  \/ /\ ~r.raised
              /\ Step("mask", "diff_mean",
                      [loc EXCEPT !.sig_mask =
                          ReshapeMask(r.mask, Len(loc.freqs), Len(loc.times))])
           \/ /\ r.raised
              /\ pc' = "failed"
              /\ exc' = "TypeError"
              /\ loc' = [loc EXCEPT !.sig_mask = r.mask]
              /\ UNCHANGED <<env, log>>
    /\ UNCHANGED <<disk, stdout>>

-----------------------------------------------------------------------------
(* Mean map and colour scale, lines 105-109 *)

(* X.mean(axis=0), held as the sum over the trials *)
TrialSum(x) ==
    [f \in 1..Len(x[1]) |->
       [t \in 1..Len(x[1][f]) |-> SumSeq([i \in 1..Len(x) |-> x[i][f][t]])]]

MeanDiff ==
    /\ Step("diff_mean", "colour", [loc EXCEPT !.diff_mean = TrialSum(loc.X)])
    /\ UNCHANGED <<disk, stdout>>

(* np.abs(a), flattened *)
AbsFlat(a) ==
    [j \in 1..(Len(a) * Len(a[1])) |->
        Abs(a[((j - 1) \div Len(a[1])) + 1][((j - 1) % Len(a[1])) + 1])]

(* np.nanpercentile(v, q) of a vector without NaN, times 100: linear
   interpolation between the two order statistics around (len - 1) * q / 100 *)
Percentile100(v, q) ==
    LET srt == Sorted(v)
        h == (Len(v) - 1) * q
        lo == (h \div 100) + 1
        hi == Min2(lo + 1, Len(v))
    IN  100 * srt[lo] + (h % 100) * (srt[hi] - srt[lo])

(* mutant: the sign of the lower bound lost *)
NegateMissing(x) == x

Negate(x) == -x

(* vmax = np.nanpercentile(np.abs(diff_mean), 98); vmin = -vmax *)
ColourScale ==
    /\ LET top == Percentile100(AbsFlat(loc.diff_mean), Pct)
       IN  Step("colour", "plot", [loc EXCEPT !.vmax = top, !.vmin = Negate(top)])
    /\ UNCHANGED <<disk, stdout>>

-----------------------------------------------------------------------------
(* Figure, lines 114-142 *)

MaskAny(m) == \E f \in 1..Len(m) : \E t \in 1..Len(m[f]) : m[f][t]

(* f"TFR Difference (Right - Left), logratio baseline - {ch}" *)
Title(c) == "TFR Difference (Right - Left), logratio baseline - " \o c

(* ax.imshow(diff_mean, vmin=vmin, vmax=vmax, ...) *)
Imshow(data, lo, hi, tm, fr) ==
    [data |-> data, origin |-> "lower", aspect |-> "auto",
     extent |-> <<tm[1], tm[Len(tm)], fr[1], fr[Len(fr)]>>,
     cmap |-> "RdBu_r", vmin |-> lo, vmax |-> hi, interpolation |-> "bicubic"]

(* if sig_mask.any(): ax.contour(times, freqs, sig_mask.astype(int), levels=[0.5]) *)
Contour(m) ==
    IF MaskAny(m)
    THEN <<[f \in 1..Len(m) |-> [t \in 1..Len(m[f]) |-> IF m[f][t] THEN 1 ELSE 0]]>>
    ELSE <<>>

(* os.path.join("results", name) *)
PathJoin(name) == "results/" \o name

Plot ==
    /\ Step("plot", "savefig",
            [loc EXCEPT
                !.fig = [im |-> Imshow(loc.diff_mean, loc.vmin, loc.vmax, loc.times, loc.freqs),
                         contour |-> Contour(loc.sig_mask),
                         title |-> Title(loc.ch),
                         xlabel |-> "Time (s)", ylabel |-> "Frequency (Hz)",
                         cbar |-> "Power difference (logratio)"],
                !.out_png = PathJoin("tfr_diff_with_stats.png")])
    /\ UNCHANGED <<disk, stdout>>

-----------------------------------------------------------------------------
(* Output, lines 143-159 *)

(* mutant: a failed savefig swallowed, the run going on to the report *)
SaveFigSwallows ==
    /\ Step("savefig", "open_report",
            [loc EXCEPT !.report_path = PathJoin("run_report.txt")])
    /\ \/ disk' = [disk EXCEPT !.png = [state |-> "new",
                                        content |-> <<[fig |-> loc.fig, dpi |-> Dpi]>>]]
       \/ UNCHANGED disk
    /\ UNCHANGED stdout

(* fig.savefig(out_png, dpi=400); a failed write leaves the old file or a
   broken new one *)
SaveFig ==
    /\ \/ /\ Step("savefig", "open_report",
                  [loc EXCEPT !.report_path = PathJoin("run_report.txt")])
          /\ disk' = [disk EXCEPT !.png = [state |-> "new",
                                           content |-> <<[fig |-> loc.fig, dpi |-> Dpi]>>]]
       \/ /\ Raise("savefig", "OSError")
          /\ \/ UNCHANGED disk
             \/ disk' = [disk EXCEPT !.png = [state |-> "partial", content |-> <<>>]]
    /\ UNCHANGED stdout

(* f"{baseline}" *)
FmtBaseline(b) == IF b = <<-200, 0>> THEN "(-0.2, 0.0)" ELSE "?"

(* the seven f.write(...) lines, without the line ends *)
ReportLines(l) ==
    << "EEG Time-Frequency (research-level mini pipeline)",
       "Channel: " \o l.ch,
       "Epochs Left/Right used: " \o IntToStr(Len(l.epochs_L.trials)) \o " / "
           \o IntToStr(Len(l.epochs_R.trials)) \o " (matched n=" \o IntToStr(l.n) \o ")",
       "Baseline: " \o FmtBaseline(l.baseline) \o ", mode=logratio",
       "Freqs: " \o Fmt1f(l.freqs[1]) \o "-" \o Fmt1f(l.freqs[Len(l.freqs)])
           \o " Hz (n=" \o IntToStr(Len(l.freqs)) \o ")",
       "Stats: permutation_cluster_1samp_test on (Right-Left), alpha=0.05",
       "Output figure: " \o l.out_png >>

(* open(report_path, "w", encoding="utf-8") creates or truncates the file *)
OpenReport ==
    /\ \/ /\ Step("open_report", "write_report", loc)
          /\ disk' = [disk EXCEPT !.report = [state |-> "open", lines |-> <<>>]]
       \/ /\ Raise("open_report", "OSError")
          /\ UNCHANGED disk
    /\ UNCHANGED stdout

(* the body of the with block and its close; a failed write leaves the
   lines written so far *)
WriteReport ==
    /\ \/ /\ Step("write_report", "print", loc)
          /\ disk' = [disk EXCEPT !.report = [state |-> "new", lines |-> ReportLines(loc)]]
       \/ /\ Raise("write_report", "OSError")
          /\ \E k \in 0..(Len(ReportLines(loc)) - 1) :
                disk' = [disk EXCEPT !.report = [state |-> "partial",
                                                 lines |-> SubSeq(ReportLines(loc), 1, k)]]
    /\ UNCHANGED stdout

(* print("Done. Saved:", out_png) *)
PrintDone ==
    /\ Step("print", "done", loc)
    /\ stdout' = Append(stdout, "Done. Saved: " \o loc.out_png)
    /\ UNCHANGED disk

-----------------------------------------------------------------------------

Next ==
    \/ MakeDirs \/ ReadRaw \/ PickEeg \/ Filter \/ ReadEvents \/ MakeEpochs
    \/ Resample \/ SelectL \/ SelectR \/ FreqGrid \/ TfrL \/ TfrR
    \/ BaselineL \/ BaselineR \/ ChooseChannel \/ ExtractL \/ ExtractR
    \/ Difference \/ Axes \/ Reshape \/ ClusterTest \/ BuildMask \/ MeanDiff
    \/ ColourScale \/ Plot \/ SaveFig \/ OpenReport \/ WriteReport \/ PrintDone

Spec == (InitBroken \/ InitRun) /\ [][Next]_vars

SpecData == (InitBroken \/ InitData) /\ [][Next]_vars

SpecStats == (InitBroken \/ InitStats) /\ [][Next]_vars

-----------------------------------------------------------------------------
(* Properties *)

Did(stmt) == \E i \in 1..Len(log) : log[i] = stmt

Pos(stmt) == CHOOSE i \in 1..Len(log) : log[i] = stmt

Times(stmt) == Cardinality({i \in 1..Len(log) : log[i] = stmt})

(* stmt ran, once, and before it a ran *)
After(stmt, a) == Did(stmt) => (Did(a) /\ Pos(a) < Pos(stmt))

Written(file) == file.state \in {"open", "partial", "new"}

(* C1: for any trial counts |L| and |R| reaching the difference, n is
   min(|L|, |R|), X has exactly n rows, and row i is Right trial i minus Left
   trial i of the chosen channel; later trials of the longer condition do
   not enter X *)
C1_DifferenceHasMinRows ==
    Did("difference") =>
        LET a == Len(loc.X_L)
            b == Len(loc.X_R)
        IN  /\ loc.n = (IF a <= b THEN a ELSE b)
            /\ Len(loc.X) = loc.n
            /\ \A i \in 1..loc.n : \A f \in 1..NFreqs : \A t \in 1..NTimes :
                  /\ loc.X[i][f][t] = loc.X_R[i][f][t] - loc.X_L[i][f][t]
                  /\ loc.X[i][f][t] =
                        LogRatio(loc.epochs_R.trials[i], loc.ch, f, t)
                          - LogRatio(loc.epochs_L.trials[i], loc.ch, f, t)

C1_Witness ==
    /\ Did("difference")
    /\ Len(loc.X_L) > Len(loc.X_R)
    /\ loc.n > 0

(* points of the flattened vector that a cluster covers *)
ClusterPoints(cl) ==
    {j \in 1..NPoints : \E i \in 1..Len(cl.items) :
                            cl.items[i].start < j /\ j <= cl.items[i].stop}

(* C2: for every list of clusters and p-values the test returns, the run
   builds the final mask, and the mask is true at a point exactly when the
   point lies in a cluster whose p-value is below 0.05; a cluster with
   p >= 0.05, 0.05 included, adds nothing *)
C2_MaskIsOrOfSignificantClusters ==
    (Did("cluster_test") /\ pc # "mask") =>
        /\ Did("mask")
        /\ \A f \in 1..NFreqs : \A t \in 1..NTimes :
              loc.sig_mask[f][t] <=>
                  \E k \in 1..Len(loc.clusters) :
                      /\ loc.cluster_pv[k] < 50
                      /\ ((f - 1) * NTimes + t) \in ClusterPoints(loc.clusters[k])

(* C3: the report of a successful run gives the used counts min(a, 80) and
   min(b, 80) and their minimum as matched n; with at least 80 trials in each
   condition the line reads "Epochs Left/Right used: 80 / 80 (matched n=80)" *)
C3_ReportCounts ==
    pc = "done" =>
        LET a == Len(env.trials.L)
            b == Len(env.trials.R)
            ua == IF a < 80 THEN a ELSE 80
            ub == IF b < 80 THEN b ELSE 80
            line == disk.report.lines[3]
        IN  /\ disk.report.state = "new"
            /\ line = "Epochs Left/Right used: " \o IntToStr(ua) \o " / " \o IntToStr(ub)
                         \o " (matched n=" \o IntToStr(IF ua < ub THEN ua ELSE ub) \o ")"
            /\ (a >= 80 /\ b >= 80) =>
                  line = "Epochs Left/Right used: 80 / 80 (matched n=80)"
            /\ (a = 79 /\ b > 80) =>
                  line = "Epochs Left/Right used: 79 / 80 (matched n=79)"

C3_Witness ==
    /\ pc = "done"
    /\ Len(env.trials.L) > 80
    /\ Len(env.trials.R) > 80

(* C4: with an empty condition or a missing input file the run ends in an
   uncaught failure: it never gets past the reshape, prints nothing and
   writes neither the PNG nor the report; only results/ may have been made *)
C4_EmptyOrMissingFails ==
    (\/ env.trials.L = <<>>
     \/ env.trials.R = <<>>
     \/ ~env.raw_file
     \/ ~env.eve_file) =>
        /\ pc \notin {"cluster_test", "mask", "diff_mean", "colour", "plot", "savefig",
                      "open_report", "write_report", "print", "done"}
        /\ stdout = <<>>
        /\ ~Written(disk.png)
        /\ ~Written(disk.report)
        /\ (~ENABLED Next) => (pc = "failed" /\ exc # None)

C4_Witness ==
    /\ pc = "failed"
    /\ Did("axes")
    /\ loc.n = 0
    /\ env.raw_file /\ env.eve_file
    /\ disk.dir

(* C5: results/ is made, then the PNG saved, then the report written, then
   the message printed, each once; a failing step ends the run, so the
   message implies PNG and report, and a report implies the PNG *)
C5_OutputOrder ==
    /\ \A stmt \in Range(log) : Times(stmt) = 1
    /\ After("savefig", "makedirs")
    /\ After("open_report", "savefig")
    /\ After("write_report", "open_report")
    /\ After("print", "write_report")
    /\ Written(disk.png) => disk.dir
    /\ Written(disk.report) => (disk.png.state = "new" /\ Did("savefig"))
    /\ (disk.png.state = "new") <=> Did("savefig")
    /\ (disk.report.state = "new") <=> Did("write_report")
    /\ (stdout # <<>>) <=> Did("print")
    /\ (stdout # <<>>) => (disk.png.state = "new" /\ disk.report.state = "new")
    /\ (pc = "failed") => ~ENABLED Next

C5_Witness ==
    /\ pc = "done"
    /\ stdout # <<>>
    /\ disk.report.state = "new"

(* C6: channels are restricted to EEG, then the recording is filtered, then
   epochs are cut with no baseline, then resampled, then each condition is cut
   to its first 80 trials, each once; the wavelet transform and the baseline
   correction start only after that *)
C6_PreprocessingOrder ==
    /\ \A stmt \in Range(log) : Times(stmt) = 1
    /\ After("filter", "pick")
    /\ After("epochs", "filter")
    /\ After("resample", "epochs")
    /\ After("select_L", "resample")
    /\ After("select_R", "select_L")
    /\ After("tfr_L", "select_R")
    /\ After("tfr_R", "select_R")
    /\ After("baseline_L", "tfr_L")
    /\ After("baseline_R", "tfr_R")
    /\ Did("epochs") =>
          /\ \A i \in 1..Len(env.chs) :
                (env.chs[i].name \in Range(loc.epochs.ch_names)) <=> (env.chs[i].kind = "eeg")
          /\ loc.epochs.filter = <<1, 40>>
          /\ loc.epochs.baseline = None
    /\ Did("select_R") =>
          /\ loc.epochs_L.sfreq = 250 /\ loc.epochs_R.sfreq = 250
          /\ loc.epochs_L.filter = <<1, 40>> /\ loc.epochs_R.filter = <<1, 40>>
    /\ Did("tfr_R") =>
          /\ Len(loc.tfr_L.data) <= 80 /\ Len(loc.tfr_R.data) <= 80
          /\ loc.tfr_L.trials = loc.epochs_L.trials
          /\ loc.tfr_R.trials = loc.epochs_R.trials

C6_Witness ==
    /\ Did("baseline_R")
    /\ Len(env.trials.L) > 80
    /\ Len(loc.tfr_L.data) = 80

(* the k-th smallest entry of a vector, by counting *)
CountLE(v, x) == Cardinality({j \in 1..Len(v) : v[j] <= x})

OrderStat(v, k) ==
    CHOOSE x \in Range(v) :
        /\ CountLE(v, x) >= k
        /\ \A y \in Range(v) : CountLE(v, y) >= k => x <= y

(* C8: the colour bounds are symmetric about zero, vmin = -vmax, vmax is the
   98th percentile of |diff_mean| (so vmax >= 0 >= vmin), and the heatmap is
   drawn with this very pair *)
C8_SymmetricColourScale ==
    /\ Did("colour") =>
          LET mag == [j \in 1..NPoints |->
                         LET d == loc.diff_mean[((j - 1) \div NTimes) + 1][((j - 1) % NTimes) + 1]
                         IN  IF d < 0 THEN 0 - d ELSE d]
              h == (NPoints - 1) * 98
              lo == (h \div 100) + 1
              below == OrderStat(mag, lo)
              above == OrderStat(mag, IF lo < NPoints THEN lo + 1 ELSE lo)
          IN  /\ loc.vmax = 100 * below + (h % 100) * (above - below)
              /\ loc.vmin + loc.vmax = 0
              /\ loc.vmax >= 0
              /\ loc.vmin <= 0
    /\ Did("plot") =>
          /\ loc.fig.im.vmin = loc.vmin
          /\ loc.fig.im.vmax = loc.vmax
          /\ loc.fig.im.data = loc.diff_mean
    /\ Did("savefig") => disk.png.content[1].fig.im.vmin + disk.png.content[1].fig.im.vmax = 0

C8_Witness ==
    /\ Did("savefig")
    /\ loc.vmax > 0
    /\ \E f \in 1..NFreqs : \E t \in 1..NTimes : loc.diff_mean[f][t] < 0

(* neighbours in the (frequency x time) grid: one step along one axis *)
GridNeighbours(p, q) ==
    LET fp == (p - 1) \div NTimes
        tp == (p - 1) % NTimes
        fq == (q - 1) \div NTimes
        tq == (q - 1) % NTimes
    IN  (IF fp < fq THEN fq - fp ELSE fp - fq) + (IF tp < tq THEN tq - tp ELSE tp - tq) = 1

RECURSIVE GridReach(_, _)
GridReach(S, R) ==
    LET more == {q \in S \ R : \E p \in R : GridNeighbours(p, q)}
    IN  IF more = {} THEN R ELSE GridReach(S, R \cup more)

(* C9: every cluster is contiguous in the (frequency x time) map: any two of
   its points are linked by a chain of its points that are grid neighbours,
   so the end of one frequency row and the start of the next are not joined
   for being adjacent in the flattened vector *)
C9_ClustersContiguousInGrid ==
    Did("cluster_test") =>
        \A k \in 1..Len(loc.clusters) :
            LET S == ClusterPoints(loc.clusters[k])
            IN  \A p \in S : GridReach(S, {p}) = S

(* C10: the analysed channel is "EEG 014" when the channel list has it and
   the first channel otherwise; it is in the list, both X_L and X_R are this
   channel's data, and the title and the report's Channel line name it *)
C10_ChannelChoice ==
    /\ Did("choose_ch") =>
          LET names == loc.tfr_L.ch_names
          IN  /\ names # <<>>
              /\ ("EEG 014" \in Range(names)) => loc.ch = "EEG 014"
              /\ ("EEG 014" \notin Range(names)) => loc.ch = names[1]
              /\ loc.ch \in Range(names)
              /\ loc.ch \in Range(loc.tfr_R.ch_names)
    /\ Did("extract_R") =>
          /\ Len(loc.X_L) = Len(loc.tfr_L.data) /\ Len(loc.X_R) = Len(loc.tfr_R.data)
          /\ \A i \in 1..Len(loc.X_L) : \A k \in 1..Len(loc.tfr_L.ch_names) :
                loc.tfr_L.ch_names[k] = loc.ch => loc.X_L[i] = loc.tfr_L.data[i][k]
          /\ \A i \in 1..Len(loc.X_R) : \A k \in 1..Len(loc.tfr_R.ch_names) :
                loc.tfr_R.ch_names[k] = loc.ch => loc.X_R[i] = loc.tfr_R.data[i][k]
    /\ Did("plot") =>
          loc.fig.title = "TFR Difference (Right - Left), logratio baseline - " \o loc.ch
    /\ Did("write_report") => disk.report.lines[2] = "Channel: " \o loc.ch

C10_Witness ==
    /\ pc = "done"
    /\ loc.ch = "EEG 014"
    /\ loc.tfr_L.ch_names[1] # "EEG 014"
    /\ Len(loc.X_L) > 0

====
